---- MODULE Spec2Model ----
(***************************************************************************)
(* Model of the Vulkan command scheduler                                   *)
(* (src/video_core/renderer_vulkan/vk_scheduler.cpp).                      *)
(*                                                                         *)
(* Every Scheduler instance is driven by one thread; the instances share   *)
(* the static submit_mutex and the graphics queue of the device.  The      *)
(* master semaphore (tick authority), the command pool and the registering *)
(* of pending operations are defined outside this translation unit; they   *)
(* are modelled from their documented contract.                            *)
(***************************************************************************)
EXTENDS Integers, Sequences, FiniteSets

(* ------------------------------ bounds --------------------------------- *)

\* Submissions stop once the next-assignable tick has reached MaxTick.
MaxTick == 3
\* Pending operations registered over one run, per scheduler.
MaxOps == 2
\* Render passes begun in one command buffer.
MaxPasses == 2

(* ----------------------------- constants ------------------------------- *)

\* The scheduler instances (one driving thread each).
Scheds == {1, 2}

\* Value of the tick counter after construction: the first submission
\* signals 1, the timeline semaphore starts at 0.
InitialTick == 1

\* RenderState values; id stands for the fields the scheduler never reads
\* but compares (extent, attachment descriptors, image handles).
DefaultState == [id |-> 0, num_color_attachments |-> 0, has_depth |-> FALSE, has_stencil |-> FALSE]

RenderStates ==
    { [id |-> 1, num_color_attachments |-> 1, has_depth |-> FALSE, has_stencil |-> FALSE],
      [id |-> 2, num_color_attachments |-> 2, has_depth |-> TRUE,  has_stencil |-> TRUE],
      [id |-> 3, num_color_attachments |-> 0, has_depth |-> TRUE,  has_stencil |-> FALSE],
      [id |-> 4, num_color_attachments |-> 0, has_depth |-> FALSE, has_stencil |-> FALSE] }

\* The states with a stencil attachment.
StencilStates == { state \in RenderStates : state.has_stencil }

\* A run is bounded in one of two ways.  Either the buffers being recorded
\* hold up to MaxPasses passes, over any of the states, one pending operation
\* is registered, and a scheduler stops submitting once its next-assignable
\* tick is MaxTick - 1; or they hold one pass, over a state with stencil, up
\* to MaxOps pending operations are registered, and a scheduler stops
\* submitting once its next-assignable tick is MaxTick.  Callers name no
\* tick beyond `ticks`, and the callbacks of pending operations call back
\* into the scheduler only in a run that is `reentrant`.
Budgets ==
    { [passes |-> MaxPasses, ops |-> 1, ticks |-> MaxTick - 1, states |-> RenderStates,
       reentrant |-> FALSE],
      [passes |-> 1, ops |-> MaxOps, ticks |-> MaxTick, states |-> StencilStates,
       reentrant |-> FALSE] }

VARIABLES
    active,          \* the scheduler instances that exist in this run
    budget,          \* the bounds of this run, one of Budgets
    mutex,           \* Scheduler::submit_mutex: 0 when free, else its holder
    devq,            \* graphics queue: submissions the device has not finished
    lost,            \* the device was lost and the process terminated
    log,             \* lines written to the log, in order
    pc,              \* position of each scheduler's thread
    ret,             \* where the running SubmitExecution returns to
    op,              \* the public operation called last (history)
    op_first,        \* submissions made before that operation was called (history)
    signalled,       \* signal values of all submissions so far, in order (history)
    closed_pass,     \* the running SubmitExecution found a pass open (history)
    wait_tick,       \* argument of the running Wait (0: none)
    presubmit_tick,  \* local of the running Finish (0: none)
    current_tick,    \* master_semaphore: next-assignable tick
    gpu_tick,        \* master_semaphore: last tick known complete
    sem,             \* device-side counter of the timeline semaphore
    is_rendering,
    render_state,
    current_cmdbuf,  \* index into pool of the buffer being recorded
    cmds,            \* commands recorded into current_cmdbuf
    pool,            \* command pool: per buffer its tag and last signalled tick
    pending_ops,     \* queue of [id, gpu_tick, reenters]
    executed         \* ids of the callbacks run so far, in order

vars == << active, budget, mutex, devq, lost, log, pc, ret, op, op_first, signalled,
           closed_pass, wait_tick,
           presubmit_tick, current_tick, gpu_tick, sem, is_rendering,
           render_state, current_cmdbuf, cmds, pool, pending_ops, executed >>

\* Groups used in UNCHANGED.
tickVars   == << current_tick, gpu_tick, sem >>
renderVars == << is_rendering, render_state >>
bufVars    == << current_cmdbuf, cmds, pool >>
opsVars    == << pending_ops, executed >>
callVars   == << ret, op, op_first, signalled, closed_pass, wait_tick, presubmit_tick >>

Max(a, b) == IF a >= b THEN a ELSE b

\* Signal values of the submissions made by the operation called last.
OpSignals(s) == SubSeq(signalled[s], op_first[s] + 1, Len(signalled[s]))

(* -------------------------- command tokens ----------------------------- *)

CmdBegin == [op |-> "begin"]
CmdEnd == [op |-> "end"]
CmdBeginRendering(state) == [op |-> "beginRendering", state |-> state]
CmdEndRendering == [op |-> "endRendering"]
CmdPipelineBarrier(src_stages, barriers) ==
    [op |-> "pipelineBarrier", src_stages |-> src_stages, barriers |-> barriers]

(* ------------------- master semaphore (tick authority) ----------------- *)

\* peekNext(): the tick the next submission will be assigned.
CurrentTick(s) == current_tick[s]

\* completed(): the last tick the device is known to have finished.
KnownGpuTick(s) == gpu_tick[s]

IsFree(s, tick) == KnownGpuTick(s) >= tick

\* allocate(): reserves the tick CurrentTick returned and steps the counter;
\* the value of the counter afterwards.
NextTickCounter(s) == current_tick[s] + 1

\* refresh(): completed() after polling the device counter; never regresses.
Refreshed(s) == Max(gpu_tick[s], sem[s])

(* ------------------------------ command pool --------------------------- *)

\* Buffers of the pool whose tagged tick is confirmed complete.
Recyclable(s, completed) ==
    { b \in 1..Len(pool[s]) : pool[s][b].tag <= completed }

\* commit(): the least-recently-submitted recyclable buffer, or a new one.
Commit(s, completed) ==
    IF Recyclable(s, completed) # {}
    THEN CHOOSE b \in Recyclable(s, completed) :
             \A c \in Recyclable(s, completed) : pool[s][b].tag <= pool[s][c].tag
    ELSE Len(pool[s]) + 1

\* The pool after commit() handed out buffer b, tagged with the tick its
\* submission will signal.
Committed(s, b, tick) ==
    IF b <= Len(pool[s])
    THEN [pool[s] EXCEPT ![b].tag = tick]
    ELSE Append(pool[s], [tag |-> tick, sub |-> 0])

(* ------------------------- render pass recording ----------------------- *)

ColorBarrier(state, i) ==
    [image |-> << state.id, "color", i >>, aspect |-> {"Color"}]

DepthBarrier(state) ==
    [image |-> << state.id, "depth", 0 >>,
     aspect |-> {"Depth"} \cup (IF state.has_stencil THEN {"Stencil"} ELSE {})]

\* The barriers vector without the push of the depth barrier.
Barriers_ColorOnly(state) ==
    [i \in 1..state.num_color_attachments |-> ColorBarrier(state, i)]

\* The barriers vector built by EndRendering.
Barriers(state) ==
    [i \in 1..state.num_color_attachments |-> ColorBarrier(state, i)]
        \o (IF state.has_depth THEN << DepthBarrier(state) >> ELSE << >>)

SrcStages(state) ==
    {"ColorAttachmentOutput"}
        \cup (IF state.has_depth THEN {"LateFragmentTests", "EarlyFragmentTests"} ELSE {})

\* What EndRendering records into a buffer holding `recorded`.
EndRenderingRecord(recorded, rendering, state) ==
    IF ~rendering
    THEN recorded
    ELSE recorded \o << CmdEndRendering >>
             \o (IF Barriers(state) # << >>
                 THEN << CmdPipelineBarrier(SrcStages(state), Barriers(state)) >>
                 ELSE << >>)

\* Number of passes begun in a command list.
NumPasses(recorded) ==
    Cardinality({ i \in 1..Len(recorded) : recorded[i].op = "beginRendering" })

\* BeginRendering without its early return.
SamePass_Never(s, new_state) == FALSE

\* BeginRendering returns at once: the same pass is already open.
SamePass(s, new_state) == is_rendering[s] /\ render_state[s] = new_state

\* BeginRendering replacing render_state before it ends the open pass.
BeginRenderingRecord_StateFirst(s, new_state) ==
    IF SamePass(s, new_state)
    THEN cmds[s]
    ELSE Append(EndRenderingRecord(cmds[s], is_rendering[s], new_state),
                CmdBeginRendering(new_state))

\* What BeginRendering records.
BeginRenderingRecord(s, new_state) ==
    IF SamePass(s, new_state)
    THEN cmds[s]
    ELSE Append(EndRenderingRecord(cmds[s], is_rendering[s], render_state[s]),
                CmdBeginRendering(new_state))

\* SubmitExecution without its call of EndRendering.
SubmitRecord_NoEndRendering(s) == Append(cmds[s], CmdEnd)

\* What SubmitExecution records before handing the buffer to the queue.
SubmitRecord(s) ==
    Append(EndRenderingRecord(cmds[s], is_rendering[s], render_state[s]), CmdEnd)

\* Passes begun in the buffers being recorded, over all schedulers.
PassesBegun ==
    Cardinality(UNION { { << s, i >> : i \in { j \in 1..Len(cmds[s]) :
                                                  cmds[s][j].op = "beginRendering" } } :
                        s \in active })

\* Pending operations registered so far, over all schedulers.
OpsRegistered ==
    Cardinality(UNION { { << s, i >> : i \in 1..Len(pending_ops[s]) + Len(executed[s]) } :
                        s \in active })

\* AllocateWorkerCommandBuffers without its current_cmdbuf.begin.
BeginRecording_Skip == << >>

\* What the buffer AllocateWorkerCommandBuffers has made current holds.
BeginRecording == << CmdBegin >>

(* -------------------------------- Init --------------------------------- *)

InitWith(schedulers, budgets) ==
    /\ active = schedulers
    /\ budget \in budgets
    /\ mutex = 0
    /\ devq = << >>
    /\ lost = FALSE
    /\ log = << >>
    /\ pc = [s \in Scheds |-> "idle"]
    /\ ret = [s \in Scheds |-> "idle"]
    /\ op = [s \in Scheds |-> "none"]
    /\ op_first = [s \in Scheds |-> 0]
    /\ signalled = [s \in Scheds |-> << >>]
    /\ closed_pass = [s \in Scheds |-> FALSE]
    /\ wait_tick = [s \in Scheds |-> 0]
    /\ presubmit_tick = [s \in Scheds |-> 0]
    /\ current_tick = [s \in Scheds |-> InitialTick]
    /\ gpu_tick = [s \in Scheds |-> 0]
    /\ sem = [s \in Scheds |-> 0]
    /\ is_rendering = [s \in Scheds |-> FALSE]
    /\ render_state = [s \in Scheds |-> DefaultState]
    /\ current_cmdbuf = [s \in Scheds |-> 1]
    /\ cmds = [s \in Scheds |-> BeginRecording]
    /\ pool = [s \in Scheds |-> << [tag |-> InitialTick, sub |-> 0] >>]
    /\ pending_ops = [s \in Scheds |-> << >>]
    /\ executed = [s \in Scheds |-> << >>]

Init == InitWith({1}, Budgets)

(* ------------------------------ operations ----------------------------- *)

BeginRendering(s, new_state) ==
    /\ pc[s] = "idle"
    /\ new_state \in budget.states
    /\ SamePass(s, new_state) \/ PassesBegun < budget.passes
    /\ cmds' = [cmds EXCEPT ![s] = BeginRenderingRecord(s, new_state)]
    /\ is_rendering' = [is_rendering EXCEPT ![s] = TRUE]
    /\ render_state' = [render_state EXCEPT ![s] = new_state]
    /\ op' = [op EXCEPT ![s] =
                 IF SamePass(s, new_state) THEN "BeginRenderingBatched" ELSE "BeginRendering"]
    /\ op_first' = [op_first EXCEPT ![s] = Len(signalled[s])]
    /\ UNCHANGED << active, budget, mutex, devq, lost, log, pc, ret, signalled, closed_pass,
                    wait_tick, presubmit_tick,
                    tickVars, current_cmdbuf, pool, opsVars >>

EndRendering(s) ==
    /\ pc[s] = "idle"
    /\ cmds' = [cmds EXCEPT ![s] = EndRenderingRecord(cmds[s], is_rendering[s], render_state[s])]
    /\ is_rendering' = [is_rendering EXCEPT ![s] = FALSE]
    /\ op' = [op EXCEPT ![s] = "EndRendering"]
    /\ op_first' = [op_first EXCEPT ![s] = Len(signalled[s])]
    /\ UNCHANGED << active, budget, mutex, devq, lost, log, pc, ret, signalled, closed_pass,
                    wait_tick, presubmit_tick,
                    tickVars, render_state, current_cmdbuf, pool, opsVars >>

\* Registers a pending operation for a tick of the caller's choosing among
\* those the scheduler has shown it: the assigned ones and the next.  The
\* callback either returns without calling the scheduler or `reenters`: it
\* calls Flush, Finish or a Wait that flushes, all of which start by calling
\* SubmitExecution.
DeferOperation(s, tick, reenters) ==
    /\ pc[s] = "idle"
    /\ tick <= CurrentTick(s)
    /\ reenters => budget.reentrant
    /\ OpsRegistered < budget.ops
    /\ pending_ops' = [pending_ops EXCEPT ![s] =
           Append(@, [id |-> Len(pending_ops[s]) + Len(executed[s]) + 1, gpu_tick |-> tick,
                      reenters |-> reenters])]
    /\ op' = [op EXCEPT ![s] = "DeferOperation"]
    /\ op_first' = [op_first EXCEPT ![s] = Len(signalled[s])]
    /\ UNCHANGED << active, budget, mutex, devq, lost, log, pc, ret, signalled, closed_pass,
                    wait_tick, presubmit_tick,
                    tickVars, renderVars, bufVars, executed >>

Flush(s) ==
    /\ pc[s] = "idle"
    /\ current_tick[s] < budget.ticks
    /\ pc' = [pc EXCEPT ![s] = "lock"]
    /\ ret' = [ret EXCEPT ![s] = "idle"]
    /\ op' = [op EXCEPT ![s] = "Flush"]
    /\ op_first' = [op_first EXCEPT ![s] = Len(signalled[s])]
    /\ UNCHANGED << active, budget, mutex, devq, lost, log, signalled, closed_pass,
                    wait_tick, presubmit_tick, tickVars, renderVars, bufVars, opsVars >>

\* Finish reading the last assigned tick instead of the next one.
PresubmitTick_Prev(s) == CurrentTick(s) - 1

\* The tick Finish reads before it submits.
PresubmitTick(s) == CurrentTick(s)

\* Finish up to its call of SubmitExecution; Wait(presubmit_tick) follows
\* when SubmitExecution returns.
Finish(s) ==
    /\ pc[s] = "idle"
    /\ current_tick[s] < budget.ticks
    /\ presubmit_tick' = [presubmit_tick EXCEPT ![s] = PresubmitTick(s)]
    /\ wait_tick' = [wait_tick EXCEPT ![s] = PresubmitTick(s)]
    /\ pc' = [pc EXCEPT ![s] = "lock"]
    /\ ret' = [ret EXCEPT ![s] = "wait"]
    /\ op' = [op EXCEPT ![s] = "Finish"]
    /\ op_first' = [op_first EXCEPT ![s] = Len(signalled[s])]
    /\ UNCHANGED << active, budget, mutex, devq, lost, log, signalled, closed_pass,
                    tickVars, renderVars, bufVars, opsVars >>

\* A caller's Wait(tick).
Wait(s, tick) ==
    /\ pc[s] = "idle"
    /\ tick <= budget.ticks
    /\ tick < current_tick[s] \/ current_tick[s] < budget.ticks
    /\ wait_tick' = [wait_tick EXCEPT ![s] = tick]
    /\ pc' = [pc EXCEPT ![s] = "wait"]
    /\ op' = [op EXCEPT ![s] = "Wait"]
    /\ op_first' = [op_first EXCEPT ![s] = Len(signalled[s])]
    /\ UNCHANGED << active, budget, mutex, devq, lost, log, ret, signalled, closed_pass,
                    presubmit_tick, tickVars, renderVars, bufVars, opsVars >>

\* Wait flushing whatever the tick.
MustFlush_Always(s) == TRUE

\* Wait never flushing.
MustFlush_Never(s) == FALSE

\* The test of Wait written with > for >=.
MustFlush_Strict(s) == wait_tick[s] > CurrentTick(s)

\* The test at the head of Wait: the waited tick has no submission yet.
MustFlush(s) == wait_tick[s] >= CurrentTick(s)

\* The head of Wait: force a submission or go on to the master semaphore's
\* wait.
WaitEntry(s) ==
    /\ pc[s] = "wait"
    /\ IF MustFlush(s)
       THEN /\ pc' = [pc EXCEPT ![s] = "lock"]
            /\ ret' = [ret EXCEPT ![s] = "ms_wait"]
       ELSE /\ pc' = [pc EXCEPT ![s] = "ms_wait"]
            /\ UNCHANGED ret
    /\ UNCHANGED << active, budget, mutex, devq, lost, log, op, op_first, signalled, closed_pass,
                    wait_tick, presubmit_tick, tickVars, renderVars, bufVars, opsVars >>

\* master_semaphore.Wait(tick): blocks until the tick is complete.
MasterWait(s) ==
    /\ pc[s] = "ms_wait"
    /\ IsFree(s, wait_tick[s]) \/ sem[s] >= wait_tick[s]
    /\ gpu_tick' = [gpu_tick EXCEPT ![s] =
                       IF IsFree(s, wait_tick[s]) THEN gpu_tick[s] ELSE Refreshed(s)]
    /\ pc' = [pc EXCEPT ![s] = "idle"]
    /\ wait_tick' = [wait_tick EXCEPT ![s] = 0]
    /\ presubmit_tick' = [presubmit_tick EXCEPT ![s] = 0]
    /\ UNCHANGED << active, budget, mutex, devq, lost, log, ret, op, op_first, signalled,
                    closed_pass, current_tick, sem,
                    renderVars, bufVars, opsVars >>

\* A lock that does not see the holders of other instances, as a mutex that
\* is a member of each Scheduler would be.
CanLock_PerInstance(s) == mutex \in {0} \cup (Scheds \ {s})

\* A recursive lock: the thread that holds it may take it again.
CanLock_Recursive(s) == mutex \in {0, s}

\* submit_mutex is static: one lock for all instances, free when no thread
\* of any instance holds it.
CanLock(s) == mutex = 0

\* std::scoped_lock lk{submit_mutex}
SubmitLock(s) ==
    /\ pc[s] = "lock"
    /\ CanLock(s)
    /\ mutex' = s
    /\ pc' = [pc EXCEPT ![s] = "body"]
    /\ UNCHANGED << active, budget, devq, lost, log, callVars, tickVars, renderVars, bufVars, opsVars >>

\* The effects of SubmitExecution up to the queue submission that both
\* outcomes of the submission share.
SubmitRecorded(s) ==
    /\ current_tick' = [current_tick EXCEPT ![s] = NextTickCounter(s)]
    /\ cmds' = [cmds EXCEPT ![s] = SubmitRecord(s)]
    /\ is_rendering' = [is_rendering EXCEPT ![s] = FALSE]

\* The signal value read after the counter was stepped.
SignalValue_Next(s) == CurrentTick(s) + 1

\* The value SubmitExecution adds to info as the timeline signal.
SignalValue(s) == CurrentTick(s)

\* SubmitExecution from NextTick to a queue submission that succeeds.
SubmitBody(s) ==
    /\ pc[s] = "body"
    /\ SubmitRecorded(s)
    /\ devq' = Append(devq, [sched |-> s, tick |-> SignalValue(s), buf |-> current_cmdbuf[s]])
    /\ pool' = [pool EXCEPT ![s][current_cmdbuf[s]].sub = SignalValue(s)]
    /\ signalled' = [signalled EXCEPT ![s] = Append(@, SignalValue(s))]
    /\ closed_pass' = [closed_pass EXCEPT ![s] = is_rendering[s]]
    /\ pc' = [pc EXCEPT ![s] = "post"]
    /\ UNCHANGED << active, budget, mutex, lost, log, ret, op, op_first, wait_tick, presubmit_tick,
                    gpu_tick, sem, render_state, current_cmdbuf, opsVars >>

\* What getCheckpointData2NV may return when the device has checkpoints;
\* without HasNvCheckpoints nothing is asked for.
CheckpointData == { << >>, << "checkpoint" >> }

\* The handler of DeviceLostError falling through to the code after it.
Unreachable_Return(s) == [pc EXCEPT ![s] = "post"]

\* UNREACHABLE_MSG: the process is terminated, with all its threads.
Unreachable(s) == [t \in Scheds |-> "terminated"]

\* The queue submission throws DeviceLostError: checkpoints are logged and
\* the process is terminated.
SubmitDeviceLost(s) ==
    /\ pc[s] = "body"
    /\ SubmitRecorded(s)
    /\ lost' = TRUE
    /\ \E checkpoint_data \in CheckpointData :
           log' = log \o checkpoint_data \o << "Device lost during submit" >>
    /\ pc' = Unreachable(s)
    /\ UNCHANGED << active, budget, mutex, devq, callVars, gpu_tick, sem, render_state,
                    current_cmdbuf, pool, opsVars >>

\* SubmitExecution without its master_semaphore.Refresh().
PostRefresh_Skip(s) == gpu_tick[s]

\* completed() after the master_semaphore.Refresh() of SubmitExecution.
PostRefresh(s) == Refreshed(s)

\* AllocateWorkerCommandBuffers without the commit: the submitted buffer
\* stays the current one.
AllocateWorkerCommandBuffers_Keep(s, completed) == current_cmdbuf[s]

\* The buffer AllocateWorkerCommandBuffers makes current: the pool's commit,
\* which sees completed() as `completed`.
AllocateWorkerCommandBuffers(s, completed) == Commit(s, completed)

\* The bookkeeping with a commit that waits until a submitted buffer has
\* completed instead of allocating a new one.
SubmitPost_AwaitBuffer(s) ==
    /\ pc[s] = "post"
    /\ Recyclable(s, PostRefresh(s)) # {}
    /\ gpu_tick' = [gpu_tick EXCEPT ![s] = PostRefresh(s)]
    /\ LET b == AllocateWorkerCommandBuffers(s, PostRefresh(s))
       IN /\ current_cmdbuf' = [current_cmdbuf EXCEPT ![s] = b]
          /\ pool' = [pool EXCEPT ![s] = Committed(s, b, CurrentTick(s))]
    /\ cmds' = [cmds EXCEPT ![s] = BeginRecording]
    /\ pc' = [pc EXCEPT ![s] = "drain"]
    /\ UNCHANGED << active, budget, mutex, devq, lost, log, callVars, current_tick, sem,
                    renderVars, opsVars >>

\* master_semaphore.Refresh(); AllocateWorkerCommandBuffers();
SubmitPost(s) ==
    /\ pc[s] = "post"
    /\ gpu_tick' = [gpu_tick EXCEPT ![s] = PostRefresh(s)]
    /\ LET b == AllocateWorkerCommandBuffers(s, PostRefresh(s))
       IN /\ current_cmdbuf' = [current_cmdbuf EXCEPT ![s] = b]
          /\ pool' = [pool EXCEPT ![s] = Committed(s, b, CurrentTick(s))]
    /\ cmds' = [cmds EXCEPT ![s] = BeginRecording]
    /\ pc' = [pc EXCEPT ![s] = "drain"]
    /\ UNCHANGED << active, budget, mutex, devq, lost, log, callVars, current_tick, sem,
                    renderVars, opsVars >>

\* The loop test without the test of the front operation's tick.
DrainCondition_NoTick(s) == pending_ops[s] # << >>

\* The loop test of the drain of pending_ops.
DrainCondition(s) ==
    pending_ops[s] # << >> /\ IsFree(s, Head(pending_ops[s]).gpu_tick)

\* A lock held on into the tick wait of the caller and never given back.
Unlocked_NotBeforeWait(s) == IF ret[s] = "idle" /\ mutex = s THEN 0 ELSE mutex

\* submit_mutex after the scoped_lock of the thread of s went out of scope.
Unlocked(s) == IF mutex = s THEN 0 ELSE mutex

\* Locking submit_mutex in a thread that holds it is undefined for
\* std::mutex: the thread blocks for ever on its own lock, or the lock
\* throws std::system_error.
RelockOutcomes == {"deadlock", "throw"}

\* One iteration of the loop.  A callback that returns has run and is
\* popped.  A callback that reenters arrives at the scoped_lock of
\* SubmitExecution while its thread holds submit_mutex: the thread stays at
\* the lock, or the exception unwinds the callback and the outer
\* SubmitExecution, whose scoped_lock releases the mutex, and leaves the
\* scheduler's code.
DrainStep(s) ==
    /\ pc[s] = "drain"
    /\ DrainCondition(s)
    /\ IF ~Head(pending_ops[s]).reenters
       THEN /\ executed' = [executed EXCEPT ![s] = Append(@, Head(pending_ops[s]).id)]
            /\ pending_ops' = [pending_ops EXCEPT ![s] = Tail(@)]
            /\ UNCHANGED << mutex, pc >>
       ELSE /\ \E outcome \in RelockOutcomes :
                   IF outcome = "deadlock"
                   THEN pc' = [pc EXCEPT ![s] = "lock"] /\ UNCHANGED mutex
                   ELSE pc' = [pc EXCEPT ![s] = "thrown"] /\ mutex' = Unlocked(s)
            /\ UNCHANGED opsVars
    /\ UNCHANGED << active, budget, devq, lost, log, callVars, tickVars, renderVars, bufVars >>

\* The loop ends, the lock is released and SubmitExecution returns.
SubmitReturn(s) ==
    /\ pc[s] = "drain"
    /\ ~DrainCondition(s)
    /\ mutex' = Unlocked(s)
    /\ pc' = [pc EXCEPT ![s] = ret[s]]
    /\ ret' = [ret EXCEPT ![s] = "idle"]
    /\ closed_pass' = [closed_pass EXCEPT ![s] = FALSE]
    /\ UNCHANGED << active, budget, devq, lost, log, op, op_first, signalled, wait_tick, presubmit_tick,
                    tickVars, renderVars, bufVars, opsVars >>

\* The device finishes the oldest submission of the queue and signals its
\* timeline value.
DeviceProgress ==
    /\ ~lost
    /\ devq # << >>
    /\ sem' = [sem EXCEPT ![Head(devq).sched] = Head(devq).tick]
    /\ devq' = Tail(devq)
    /\ UNCHANGED << active, budget, mutex, lost, log, pc, callVars, current_tick, gpu_tick,
                    renderVars, bufVars, opsVars >>

\* Ticks a caller may wait on or register a pending operation for.
CallerTicks == 1..MaxTick

Next ==
    \/ \E s \in active, new_state \in RenderStates : BeginRendering(s, new_state)
    \/ \E s \in active : EndRendering(s)
    \/ \E s \in active, tick \in CallerTicks, reenters \in BOOLEAN :
           DeferOperation(s, tick, reenters)
    \/ \E s \in active : Flush(s)
    \/ \E s \in active : Finish(s)
    \/ \E s \in active, tick \in CallerTicks : Wait(s, tick)
    \/ \E s \in active : WaitEntry(s)
    \/ \E s \in active : MasterWait(s)
    \/ \E s \in active : SubmitLock(s)
    \/ \E s \in active : SubmitBody(s)
    \/ \E s \in active : SubmitDeviceLost(s)
    \/ \E s \in active : SubmitPost(s)
    \/ \E s \in active : DrainStep(s)
    \/ \E s \in active : SubmitReturn(s)
    \/ DeviceProgress

Spec == Init /\ [][Next]_vars

\* A step of the thread of scheduler s inside an operation it was called for.
Step(s) ==
    /\ s \in active
    /\ \/ WaitEntry(s)
       \/ MasterWait(s)
       \/ SubmitLock(s)
       \/ SubmitBody(s)
       \/ SubmitDeviceLost(s)
       \/ SubmitPost(s)
       \/ DrainStep(s)
       \/ SubmitReturn(s)

\* Runs with one pass per buffer and one pending operation.
InitFair ==
    InitWith({1}, {[passes |-> 1, ops |-> 1, ticks |-> MaxTick, states |-> RenderStates,
                    reentrant |-> FALSE]})

\* The thread inside an operation keeps running and the device keeps
\* executing what was submitted to it; nothing obliges a caller to call.
FairSpec ==
    /\ InitFair
    /\ [][Next]_vars
    /\ WF_vars(DeviceProgress)
    /\ \A s \in Scheds : WF_vars(Step(s))

\* The thread inside an operation keeps running, while the device may stall
\* for ever on what was submitted to it.
StalledSpec ==
    /\ InitFair
    /\ [][Next]_vars
    /\ \A s \in Scheds : WF_vars(Step(s))

\* Two schedulers, each driven by its own thread, each making at most one
\* submission, with one pass, over the depth-stencil state, and one pending
\* operation between them, whose callback may reenter.
InitConc ==
    InitWith(Scheds, {[passes |-> 1, ops |-> 1, ticks |-> InitialTick + 1,
                       states |-> StencilStates,
                       reentrant |-> TRUE]})

ConcSpec == InitConc /\ [][Next]_vars

\* The threads of both schedulers keep running inside their operations,
\* while the device may stall for ever.
ConcStalledSpec ==
    /\ InitConc
    /\ [][Next]_vars
    /\ \A s \in Scheds : WF_vars(Step(s))

(* ======================================================================= *)
(*                               Properties                                *)
(* ======================================================================= *)

(* ---------------------- shapes of a command list ----------------------- *)

PassOps == {"beginRendering", "endRendering", "end"}

\* Positions of the commands that open, close or must not lie inside a pass.
PassPositions(recorded) == { i \in 1..Len(recorded) : recorded[i].op \in PassOps }

\* The position of the pass command that follows position i (0: none).
NextPassPosition(recorded, i) ==
    IF { j \in PassPositions(recorded) : j > i } = {}
    THEN 0
    ELSE CHOOSE j \in PassPositions(recorded) :
             j > i /\ \A k \in PassPositions(recorded) : k > i => j <= k

\* The position of the pass command that precedes position i (0: none).
PrevPassPosition(recorded, i) ==
    IF { j \in PassPositions(recorded) : j < i } = {}
    THEN 0
    ELSE CHOOSE j \in PassPositions(recorded) :
             j < i /\ \A k \in PassPositions(recorded) : k < i => k <= j

\* Passes do not nest: after a begin-pass the next pass command, if any, is
\* an end-pass, and every end-pass directly closes a begin-pass.
NoNesting(recorded) ==
    \A i \in 1..Len(recorded) :
        /\ recorded[i].op = "beginRendering" =>
               \/ NextPassPosition(recorded, i) = 0
               \/ recorded[NextPassPosition(recorded, i)].op = "endRendering"
        /\ recorded[i].op = "endRendering" =>
               /\ PrevPassPosition(recorded, i) # 0
               /\ recorded[PrevPassPosition(recorded, i)].op = "beginRendering"

\* A pass is open at the end of the list.
OpenPass(recorded) ==
    \E i \in 1..Len(recorded) :
        recorded[i].op = "beginRendering" /\ NextPassPosition(recorded, i) = 0

\* A finished buffer: recording began once, ended once, at the very end.
Finished(recorded) ==
    /\ Len(recorded) >= 2
    /\ recorded[1] = CmdBegin
    /\ recorded[Len(recorded)] = CmdEnd
    /\ \A i \in 2..Len(recorded) - 1 : recorded[i].op \notin {"begin", "end"}

(* ------------------------------- C1 ------------------------------------ *)

\* C1: no unterminated render pass is submitted.  The buffer that
\* SubmitExecution handed to the queue (the current buffer until the next
\* one is committed) is finished, every begin-pass in it is followed by its
\* end-pass before the end of recording, and is_rendering is false; in every
\* buffer passes never nest, and a pass is open in the current buffer exactly
\* when is_rendering says so, so that no pass spans two buffers.
C1_NoUnterminatedPass ==
    \A s \in active :
        /\ NoNesting(cmds[s])
        /\ pc[s] \in {"idle", "wait", "lock", "body", "ms_wait"} =>
               (is_rendering[s] <=> OpenPass(cmds[s]))
        /\ pc[s] = "post" =>
               /\ Finished(cmds[s])
               /\ ~OpenPass(cmds[s])
               /\ ~is_rendering[s]
               /\ signalled[s] # << >>
               /\ pool[s][current_cmdbuf[s]].sub = signalled[s][Len(signalled[s])]
        /\ pc[s] = "drain" => cmds[s] = << CmdBegin >> /\ ~is_rendering[s]

\* A submission found a pass open and closed it before the hand-over.
C1_Witness ==
    /\ pc[1] = "post"
    /\ closed_pass[1]
    /\ NumPasses(cmds[1]) >= 1

(* ------------------------------- C2 ------------------------------------ *)

\* C2: buffer non-reuse.  Outside the window between the queue submission
\* and the commit of the next buffer, the current recording buffer is not in
\* the graphics queue and the tick of its previous submission, if it has
\* one, is <= completed().
C2_BufferNonReuse ==
    \A s \in active :
        pc[s] # "post" =>
            /\ current_cmdbuf[s] \in 1..Len(pool[s])
            /\ pool[s][current_cmdbuf[s]].sub <= gpu_tick[s]
            /\ \A i \in 1..Len(devq) :
                   ~(devq[i].sched = s /\ devq[i].buf = current_cmdbuf[s])

\* A submitted buffer is the current one again, and a second buffer had to
\* be allocated at some point because the first was still executing.
C2_Witness ==
    /\ pc[1] = "idle"
    /\ pool[1][current_cmdbuf[1]].sub >= 1
    /\ Len(pool[1]) >= 2

(* ------------------------------- C3 ------------------------------------ *)

\* C3: Finish blocks to completion.  Finish makes a submission whose signal
\* value is the tick it read before submitting, and when Finish has returned
\* completed() >= that value.
C3_FinishBlocks ==
    \A s \in active :
        op[s] = "Finish" =>
            /\ pc[s] \in {"post", "drain", "wait", "ms_wait"} =>
                   /\ OpSignals(s) # << >>
                   /\ OpSignals(s)[1] = presubmit_tick[s]
            /\ pc[s] = "idle" =>
                   /\ OpSignals(s) # << >>
                   /\ gpu_tick[s] >= OpSignals(s)[1]

\* Finish has returned after a submission that was not the first.
C3_Witness ==
    /\ op[1] = "Finish"
    /\ pc[1] = "idle"
    /\ OpSignals(1) # << >>
    /\ OpSignals(1)[1] >= 2

(* ------------------------------- C4 ------------------------------------ *)

\* C4: no self-deadlock.  A Wait called on the next-assignable tick returns,
\* with completed() >= that tick, unless the device is lost (and the process
\* terminated) on the way.
C4_WaitOnNextTick ==
    \A s \in Scheds, t \in CallerTicks :
        (s \in active /\ pc[s] = "wait" /\ op[s] = "Wait"
            /\ wait_tick[s] = t /\ current_tick[s] = t)
        ~> (lost \/ (pc[s] = "idle" /\ gpu_tick[s] >= t))

\* A Wait that had to force a submission has returned.
C4_Witness ==
    /\ op[1] = "Wait"
    /\ pc[1] = "idle"
    /\ Len(OpSignals(1)) = 1
    /\ gpu_tick[1] >= OpSignals(1)[1]
    /\ OpSignals(1)[1] >= 2

(* ------------------------------- C5 ------------------------------------ *)

\* C5: whenever Wait has gone on to the master semaphore's wait, a
\* submission signalling the waited tick has been made: tick < peekNext().
C5_WaitedTickSubmitted ==
    \A s \in active : pc[s] = "ms_wait" => wait_tick[s] < current_tick[s]

(* ------------------------------- C6 ------------------------------------ *)

\* C6: tick assignment.  The signal values handed to the device are
\* InitialTick, InitialTick + 1, ... in the order of the submissions, each
\* once and none skipped; unless the device was lost the counter has been
\* stepped once per submission, so every submission signals the tick that
\* was allocated for it; the submissions pending in the queue carry these
\* values in increasing order.
C6_TickAssignment ==
    \A s \in active :
        /\ \A i \in 1..Len(signalled[s]) : signalled[s][i] = InitialTick + i - 1
        /\ ~lost => current_tick[s] = InitialTick + Len(signalled[s])
        /\ \A i \in 1..Len(devq) :
               devq[i].sched = s =>
                   /\ \E j \in 1..Len(signalled[s]) : signalled[s][j] = devq[i].tick
                   /\ \A k \in 1..Len(devq) :
                          (k > i /\ devq[k].sched = s) => devq[k].tick > devq[i].tick

\* Two submissions were made, by different operations.
C6_Witness ==
    /\ ~lost
    /\ Len(signalled[1]) >= 2
    /\ op_first[1] >= 1
    /\ pc[1] = "idle"

(* ------------------------------- C7 ------------------------------------ *)

\* C7: completed-tick invariant.  completed() never exceeds the highest
\* tick assigned (one less than the next-assignable tick), and no step
\* makes completed() smaller.
C7_CompletedTick ==
    /\ [](\A s \in Scheds : gpu_tick[s] <= current_tick[s] - 1)
    /\ [][\A s \in Scheds : gpu_tick'[s] >= gpu_tick[s]]_vars

\* completed() has caught up with the second submission.
C7_Witness ==
    /\ gpu_tick[1] = current_tick[1] - 1
    /\ gpu_tick[1] >= 2

(* ------------------------------- C8 ------------------------------------ *)

\* The front pending operation of s is due: its tick is <= completed().
FrontDue(s) ==
    pending_ops[s] # << >> /\ Head(pending_ops[s]).gpu_tick <= gpu_tick[s]

\* C8: deferred-callback drain.  A callback runs only inside the drain of a
\* submit, only as the front of the queue, only when its tick is <=
\* completed(), and is removed as it runs; the queue otherwise changes only
\* by an operation being appended; the drain ends only when the queue is
\* empty or its front is not due; callbacks run in the order they were
\* registered and none runs twice.
C8_Drain ==
    /\ [][\A s \in Scheds :
              executed'[s] # executed[s] =>
                  /\ pc[s] = "drain"
                  /\ FrontDue(s)
                  /\ executed'[s] = Append(executed[s], Head(pending_ops[s]).id)
                  /\ pending_ops'[s] = Tail(pending_ops[s])]_vars
    /\ [][\A s \in Scheds :
              pending_ops'[s] # pending_ops[s] =>
                  \/ /\ executed'[s] # executed[s]
                     /\ pending_ops'[s] = Tail(pending_ops[s])
                  \/ /\ executed'[s] = executed[s]
                     /\ Len(pending_ops'[s]) = Len(pending_ops[s]) + 1
                     /\ SubSeq(pending_ops'[s], 1, Len(pending_ops[s])) = pending_ops[s]]_vars
    /\ [][\A s \in Scheds :
              (pc[s] = "drain" /\ pc'[s] # "drain") =>
                  (~FrontDue(s) /\ pending_ops'[s] = pending_ops[s])]_vars
    /\ [](\A s \in Scheds :
              /\ \A i, j \in 1..Len(executed[s]) : i < j => executed[s][i] < executed[s][j]
              /\ \A i \in 1..Len(executed[s]), j \in 1..Len(pending_ops[s]) :
                     executed[s][i] < pending_ops[s][j].id)

\* A submit has run the first operation and left the second, which is not
\* due, in the queue.
C8_Witness ==
    /\ pc[1] = "idle"
    /\ op[1] \in {"Flush", "Finish", "Wait"}
    /\ Len(executed[1]) >= 1
    /\ pending_ops[1] # << >>
    /\ Head(pending_ops[1]).gpu_tick > gpu_tick[1]

(* ------------------------------- C9 ------------------------------------ *)

\* C9 as stated: once completed() has reached the tick of the front pending
\* operation, the operation runs -- so none is left due in the queue when
\* Finish or Wait, which bring completed() up to a tick, have returned.
C9_NotStarved ==
    \A s \in active :
        (pc[s] = "idle" /\ op[s] \in {"Finish", "Wait"}) => ~FrontDue(s)

\* C9 as amended: every submit polls the device counter and then runs the
\* pending operations up to the first one that is not due, so when
\* SubmitExecution returns (to Flush's caller, or to Finish or Wait before
\* they block) no due operation is left at the front of the queue.  An
\* operation that becomes due afterwards runs in the next submit.
C9_DrainAtSubmit ==
    /\ [][\A s \in Scheds :
              (pc[s] = "post" /\ pc'[s] # "post") => gpu_tick'[s] >= sem[s]]_vars
    /\ [](\A s \in Scheds :
              ((pc[s] = "idle" /\ op[s] = "Flush")
                  \/ (pc[s] \in {"wait", "ms_wait"} /\ OpSignals(s) # << >>))
              => ~FrontDue(s))

\* A Flush has returned and the operation registered before it has run.
C9_Witness ==
    /\ pc[1] = "idle"
    /\ op[1] = "Flush"
    /\ Len(executed[1]) >= 1
    /\ pending_ops[1] = << >>

(* ------------------------------- C10 ----------------------------------- *)

\* C10: pass batching.  A BeginRendering whose state equals that of the
\* open pass records nothing and leaves is_rendering and render_state as
\* they are; any other BeginRendering records exactly one begin-pass, as the
\* last command, over the state given.
C10_PassBatching ==
    [][\A s \in Scheds, new_state \in RenderStates :
           (s \in active /\ BeginRendering(s, new_state)) =>
               IF is_rendering[s] /\ render_state[s] = new_state
               THEN /\ cmds'[s] = cmds[s]
                    /\ is_rendering'[s]
                    /\ render_state'[s] = render_state[s]
               ELSE /\ NumPasses(cmds'[s]) = NumPasses(cmds[s]) + 1
                    /\ cmds'[s][Len(cmds'[s])] = CmdBeginRendering(new_state)
                    /\ is_rendering'[s]
                    /\ render_state'[s] = new_state]_vars

\* A BeginRendering was batched into the open pass, the only one begun.
C10_Witness ==
    /\ op[1] = "BeginRenderingBatched"
    /\ is_rendering[1]
    /\ NumPasses(cmds[1]) = 1
    /\ OpenPass(cmds[1])

(* ------------------------------- C11 ----------------------------------- *)

\* The commands a step appends to the current buffer of s.
Appended(before, after) ==
    IF Len(after) >= Len(before) /\ SubSeq(after, 1, Len(before)) = before
    THEN SubSeq(after, Len(before) + 1, Len(after))
    ELSE << >>

\* Positions of the commands of a list that are the operation `name`.
Positions(recorded, name) == { i \in 1..Len(recorded) : recorded[i].op = name }

\* The barriers a list hands to the device, over all its barrier calls.
NumBarriers(recorded, i) ==
    IF recorded[i].op = "pipelineBarrier" THEN Len(recorded[i].barriers) ELSE 0

\* C11: pass transition barrier count.  Every step that closes an open pass
\* (EndRendering, a BeginRendering over another state, a submit) records one
\* end-pass and directly after it at most one barrier call; the call holds
\* one barrier per color image of the closed state, of aspect Color, and if
\* the state has a depth attachment one more, for the depth image, whose
\* aspect is Depth, with Stencil exactly if the state has a stencil
\* attachment: N + 1 or N barriers, and no call when that number is 0.  A
\* step taken while no pass is open records neither end-pass nor barrier.
C11_BarrierCount ==
    [][\A s \in Scheds :
           LET added == Appended(cmds[s], cmds'[s])
               state == render_state[s]
               n == state.num_color_attachments
               expected == n + (IF state.has_depth THEN 1 ELSE 0)
           IN  /\ (is_rendering[s] /\ (~is_rendering'[s] \/ render_state'[s] # state)) =>
                      /\ Positions(added, "endRendering") = {1}
                      /\ Positions(added, "pipelineBarrier") = (IF expected = 0 THEN {} ELSE {2})
                      /\ expected > 0 =>
                             /\ NumBarriers(added, 2) = expected
                             /\ \A i \in 1..n :
                                    /\ added[2].barriers[i].aspect = {"Color"}
                                    /\ added[2].barriers[i].image = << state.id, "color", i >>
                             /\ state.has_depth =>
                                    /\ added[2].barriers[n + 1].image = << state.id, "depth", 0 >>
                                    /\ "Depth" \in added[2].barriers[n + 1].aspect
                                    /\ "Color" \notin added[2].barriers[n + 1].aspect
                                    /\ ("Stencil" \in added[2].barriers[n + 1].aspect)
                                           <=> state.has_stencil
               /\ ~is_rendering[s] =>
                      /\ Positions(added, "endRendering") = {}
                      /\ Positions(added, "pipelineBarrier") = {}
               /\ (is_rendering[s] /\ is_rendering'[s] /\ render_state'[s] = state) =>
                      cmds'[s] = cmds[s]]_vars

\* A pass over two color attachments and a depth-stencil attachment was
\* closed by EndRendering: three barriers in one call.
C11_Witness ==
    /\ op[1] = "EndRendering"
    /\ ~is_rendering[1]
    /\ Len(cmds[1]) >= 3
    /\ cmds[1][Len(cmds[1])].op = "pipelineBarrier"
    /\ Len(cmds[1][Len(cmds[1])].barriers) = 3
    /\ cmds[1][Len(cmds[1]) - 1] = CmdEndRendering

(* ------------------------------- C12 ----------------------------------- *)

\* C12: device loss is terminal.  The step in which the queue submission
\* fails logs the checkpoints the device offers and then the device-lost
\* message, and terminates the process: it does not refresh completed(),
\* commits no recording buffer, runs and removes no pending operation,
\* hands nothing to the queue; SubmitExecution does not return (every thread
\* is terminated, none is back at its caller), and from then on no step of
\* any scheduler operation changes anything.
C12_DeviceLossTerminal ==
    /\ [][(~lost /\ lost') =>
              /\ \E s \in active : pc[s] = "body" /\ mutex = s
              /\ \A s \in Scheds : pc'[s] = "terminated"
              /\ Len(log') > Len(log)
              /\ log'[Len(log')] = "Device lost during submit"
              /\ \A i \in Len(log) + 1..Len(log') - 1 : log'[i] = "checkpoint"
              /\ gpu_tick' = gpu_tick
              /\ current_cmdbuf' = current_cmdbuf
              /\ pool' = pool
              /\ pending_ops' = pending_ops
              /\ executed' = executed
              /\ devq' = devq
              /\ signalled' = signalled]_vars
    /\ [][~lost]_vars
    /\ [](lost => \A s \in Scheds : pc[s] = "terminated")
    /\ [](~lost => log = << >>)

\* The device was lost in a submit that would otherwise have seen a new
\* completed tick and run the pending operation at the front of the queue.
C12_Witness ==
    /\ lost
    /\ sem[1] > gpu_tick[1]
    /\ pending_ops[1] # << >>
    /\ Head(pending_ops[1]).gpu_tick <= sem[1]
    /\ Len(log) = 2

(* ------------------------------- C13 ----------------------------------- *)

\* The thread of s is inside the critical section of SubmitExecution: past
\* the lock, at the tick allocation and queue submission, at the post-submit
\* bookkeeping or in the drain.
InSubmit(s) == pc[s] \in {"body", "post", "drain"}

\* C13: submission mutual exclusion.  Over any two scheduler instances with
\* a thread each, at most one thread is inside the critical section, and it
\* is the holder of the one submit_mutex; so the tick allocation, the queue
\* submission and the bookkeeping of two submits never overlap, and the
\* graphics queue receives one submission per step of the holder.
C13_MutualExclusion ==
    /\ [](\A s, t \in active : (InSubmit(s) /\ InSubmit(t)) => s = t)
    /\ [](\A s \in active : InSubmit(s) => mutex = s)
    /\ [][Len(devq') > Len(devq) =>
              /\ Len(devq') = Len(devq) + 1
              /\ mutex # 0 /\ mutex' = mutex
              /\ devq'[Len(devq')].sched = mutex
              /\ pc[mutex] = "body"]_vars

\* Scheduler 1 is inside the critical section, its submission in the queue,
\* while scheduler 2, called to submit, waits for the lock.
C13_Witness ==
    /\ active = Scheds
    /\ pc[1] = "post"
    /\ pc[2] = "lock"
    /\ mutex = 1
    /\ devq # << >>

(* ------------------------------- C14 ----------------------------------- *)

\* C14: Flush, BeginRendering and EndRendering never block on the GPU.
\* BeginRendering and EndRendering return in the step they are called in,
\* and EndRendering can be called whatever the device has done; a thread
\* inside Flush can always take its next step, and does return (unless the
\* device is lost), even if the device never completes anything -- when no
\* submitted buffer is complete the commit hands out a new one.  The only
\* place a thread can be unable to go on is the master semaphore's wait of
\* Finish or Wait.
C14_NoGpuBlocking ==
    /\ [][\A s \in Scheds, new_state \in RenderStates :
              (s \in active /\ (BeginRendering(s, new_state) \/ EndRendering(s)))
                  => pc'[s] = "idle"]_vars
    /\ [](\A s \in active : pc[s] = "idle" => ENABLED EndRendering(s))
    /\ [](\A s \in active :
              (op[s] = "Flush" /\ pc[s] \in {"lock", "body", "post", "drain"})
                  => ENABLED Step(s))
    /\ [](\A s \in active :
              (pc[s] \notin {"idle", "terminated"} /\ ~ENABLED Step(s))
                  => (pc[s] = "ms_wait" /\ op[s] \in {"Finish", "Wait"}))
    /\ \A s \in Scheds :
           (s \in active /\ op[s] = "Flush" /\ pc[s] = "lock")
               ~> (lost \/ (pc[s] = "idle" /\ op[s] = "Flush"))

\* Two Flushes have returned although the device has completed nothing: each
\* commit had to allocate a new buffer.
C14_Witness ==
    /\ op[1] = "Flush"
    /\ pc[1] = "idle"
    /\ sem[1] = 0
    /\ Len(devq) = 2
    /\ Len(pool[1]) = 3

(* ------------------------------- C15 ----------------------------------- *)

\* A buffer in the Recording state: recording was begun, once, and not ended.
Recording(recorded) ==
    /\ Len(recorded) >= 1
    /\ recorded[1] = CmdBegin
    /\ \A i \in 2..Len(recorded) : recorded[i].op \notin {"begin", "end"}

\* Buffer b of s is in a queue of submissions.
SubmittedIn(queue, s, b) ==
    \E i \in 1..Len(queue) : queue[i].sched = s /\ queue[i].buf = b

\* Buffer b of s is in the graphics queue.
Submitted(s, b) == SubmittedIn(devq, s, b)

\* C15: always ready to record.  After construction and whenever the thread
\* is not between the end of the old buffer and the commit of the new one,
\* the scheduler has a current buffer of its pool that is in the Recording
\* state and is not in the graphics queue.  A submit ends the current buffer
\* and hands that very buffer to the queue; its bookkeeping makes current a
\* buffer that is not in the queue and holds nothing but the begin of
\* recording, with no pass open, and so the scheduler is when the drain runs
\* and when Flush, Finish or a Wait that submitted have returned.
C15_ReadyToRecord ==
    /\ [](\A s \in active :
              /\ pc[s] \in {"idle", "wait", "lock", "body", "drain", "ms_wait"} =>
                     /\ current_cmdbuf[s] \in 1..Len(pool[s])
                     /\ Recording(cmds[s])
                     /\ ~Submitted(s, current_cmdbuf[s])
              /\ (pc[s] = "drain"
                     \/ (pc[s] \in {"idle", "wait", "ms_wait"} /\ OpSignals(s) # << >>)) =>
                     /\ cmds[s] = << CmdBegin >>
                     /\ ~is_rendering[s])
    /\ [][\A s \in Scheds :
              /\ (pc[s] = "body" /\ pc'[s] = "post") =>
                     /\ Finished(cmds'[s])
                     /\ SubmittedIn(devq', s, current_cmdbuf[s])
                     /\ current_cmdbuf'[s] = current_cmdbuf[s]
              /\ (pc[s] = "post" /\ pc'[s] # "post") =>
                     /\ pc'[s] = "drain"
                     /\ current_cmdbuf'[s] \in 1..Len(pool'[s])
                     /\ ~SubmittedIn(devq', s, current_cmdbuf'[s])
              /\ (pc[s] = "drain" /\ pc'[s] # "drain") =>
                     (pc'[s] \in {"idle", "wait", "ms_wait"} /\ OpSignals(s)' # << >>)]_vars

\* The second Flush has returned with the first buffer current again, the
\* device having completed it, while the second buffer is in the queue.
C15_Witness ==
    /\ op[1] = "Flush"
    /\ pc[1] = "idle"
    /\ Len(signalled[1]) = 2
    /\ current_cmdbuf[1] = 1
    /\ Submitted(1, 2)
    /\ cmds[1] = << CmdBegin >>

(* ------------------------------- C16 ----------------------------------- *)

\* C16: pass transition ordering.  BeginRendering(S2) while a pass over
\* another state S1 is open appends to the buffer, in this order: the
\* end-pass; the one barrier call over the attachments of S1 (its images,
\* its source stages), left out only if S1 has no attachment at all; the
\* begin-pass over S2.  Afterwards render_state is S2 and is_rendering is
\* true.
C16_TransitionOrder ==
    [][\A s \in Scheds, S2 \in RenderStates :
           LET S1 == render_state[s]
               added == Appended(cmds[s], cmds'[s])
               n == Len(added)
           IN  (s \in active /\ BeginRendering(s, S2) /\ is_rendering[s] /\ S1 # S2) =>
                   /\ n \in {2, 3}
                   /\ added[1] = CmdEndRendering
                   /\ added[n] = [op |-> "beginRendering", state |-> S2]
                   /\ (n = 2) <=> (S1.num_color_attachments = 0 /\ ~S1.has_depth)
                   /\ n = 3 =>
                          /\ added[2].op = "pipelineBarrier"
                          /\ added[2].barriers = Barriers(S1)
                          /\ added[2].src_stages = SrcStages(S1)
                          /\ \A i \in 1..Len(added[2].barriers) :
                                 added[2].barriers[i].image[1] = S1.id
                   /\ render_state'[s] = S2
                   /\ is_rendering'[s]]_vars

\* A pass over the two-color depth-stencil state was replaced by a pass over
\* the one-color state: end-pass, three barriers, begin-pass.
C16_Witness ==
    /\ op[1] = "BeginRendering"
    /\ is_rendering[1]
    /\ Len(cmds[1]) = 5
    /\ cmds[1][2].op = "beginRendering" /\ cmds[1][2].state.id = 2
    /\ cmds[1][3] = CmdEndRendering
    /\ cmds[1][4].op = "pipelineBarrier" /\ Len(cmds[1][4].barriers) = 3
    /\ cmds[1][5].op = "beginRendering" /\ cmds[1][5].state.id = 1
    /\ render_state[1].id = 1

(* ------------------------------- C17 ----------------------------------- *)

\* C17: Finish performs exactly one submission.  When the Wait inside Finish
\* is entered the tick read before the submit is below the next-assignable
\* tick, so it forces no flush; from the return of the submit until Finish
\* has returned, Finish has made one submission and the next-assignable tick
\* is one above the tick read at the call; it is so when Finish has returned.
C17_FinishSubmitsOnce ==
    /\ [](\A s \in active :
              op[s] = "Finish" =>
                  /\ pc[s] \in {"lock", "body"} =>
                         (OpSignals(s) = << >> /\ current_tick[s] = presubmit_tick[s])
                  /\ pc[s] \in {"wait", "ms_wait"} =>
                         /\ wait_tick[s] = presubmit_tick[s]
                         /\ wait_tick[s] < current_tick[s]
                         /\ Len(OpSignals(s)) = 1
                         /\ current_tick[s] = presubmit_tick[s] + 1
                  /\ pc[s] = "idle" =>
                         /\ Len(OpSignals(s)) = 1
                         /\ current_tick[s] = OpSignals(s)[1] + 1)
    /\ [][\A s \in Scheds :
              (op[s] = "Finish" /\ pc[s] # "idle" /\ pc'[s] = "idle") =>
                  (pc[s] = "ms_wait" /\ current_tick'[s] = presubmit_tick[s] + 1)]_vars

\* The second Finish of a scheduler has returned: it read tick 2 and left
\* the next-assignable tick at 3.
C17_Witness ==
    /\ op[1] = "Finish"
    /\ pc[1] = "idle"
    /\ op_first[1] = 1
    /\ OpSignals(1) = << 2 >>
    /\ current_tick[1] = 3

(* ------------------------------- C18 ----------------------------------- *)

\* What a Wait that does not submit leaves alone, for scheduler s.
WaitFrame(s) ==
    << current_tick[s], current_cmdbuf[s], cmds[s], is_rendering[s], render_state[s],
       pending_ops[s] >>

\* C18: Wait submits only when needed.  The head of Wait goes to a submit
\* exactly if tick >= peekNext(), and to the master semaphore's wait
\* otherwise; a Wait that went to the submit has made no submission before
\* the queue submission and one ever after, a Wait that did not has made
\* none, and nothing is submitted during the master semaphore's wait.  From
\* the call to the return of a Wait with tick < peekNext() the
\* next-assignable tick, the current buffer and its commands, is_rendering,
\* render_state and the queue of pending operations stay as they are.
C18_WaitSubmitsIfNeeded ==
    /\ [][\A s \in Scheds :
              (op[s] = "Wait" /\ pc[s] = "wait" /\ pc'[s] # "wait") =>
                  IF wait_tick[s] >= current_tick[s]
                  THEN pc'[s] = "lock" /\ ret'[s] = "ms_wait"
                  ELSE pc'[s] = "ms_wait"]_vars
    /\ [](\A s \in active :
              op[s] = "Wait" =>
                  /\ pc[s] \in {"wait", "lock", "body"} => OpSignals(s) = << >>
                  /\ pc[s] \in {"lock", "body"} => wait_tick[s] >= current_tick[s]
                  /\ pc[s] \in {"post", "drain"} => Len(OpSignals(s)) = 1
                  /\ pc[s] = "ms_wait" =>
                         Len(OpSignals(s)) =
                             (IF wait_tick[s] >= InitialTick + op_first[s] THEN 1 ELSE 0)
                  /\ pc[s] = "idle" => Len(OpSignals(s)) \in {0, 1})
    /\ [][\A s \in Scheds :
              (op'[s] = "Wait" /\ pc[s] \in {"idle", "wait", "ms_wait"}
                  /\ pc'[s] \in {"wait", "ms_wait", "idle"}) =>
                  (signalled'[s] = signalled[s]
                      /\ (OpSignals(s)' = << >> => WaitFrame(s)' = WaitFrame(s)))]_vars

\* A Wait on a tick already assigned has returned without a submission,
\* with the pass and the pending operation of its caller untouched.
C18_Witness ==
    /\ op[1] = "Wait"
    /\ pc[1] = "idle"
    /\ OpSignals(1) = << >>
    /\ signalled[1] # << >>
    /\ is_rendering[1]
    /\ pending_ops[1] # << >>

(* ------------------------------- C19 ----------------------------------- *)

\* The thread of s is blocked in the master semaphore's wait: the device has
\* not signalled the tick it waits for.
Blocked(s) == pc[s] = "ms_wait" /\ ~IsFree(s, wait_tick[s]) /\ sem[s] < wait_tick[s]

\* C19: blocking never happens under the submission mutex.  A thread at the
\* head of Wait or in the master semaphore's wait does not hold
\* submit_mutex: the step that returns from the submit into Finish or Wait
\* releases it.  So a thread that waits for the lock never waits for a
\* thread blocked on the GPU -- the holder is inside a submit, or stuck at
\* the lock in a callback of its own that reentered -- and while one
\* scheduler is blocked, however long the device stalls, a thread of the
\* other that asks for the lock gets it and returns from its submit, unless
\* the device is lost or its own callback reenters the scheduler.
C19_NoBlockingUnderMutex ==
    /\ [](\A s \in active : pc[s] \in {"wait", "ms_wait"} => mutex # s)
    /\ [][\A s \in Scheds :
              (pc[s] = "drain" /\ pc'[s] \in {"wait", "ms_wait", "idle"}) =>
                  (mutex = s /\ mutex' = 0)]_vars
    /\ [](\A t \in active :
              (pc[t] = "lock" /\ ~ENABLED SubmitLock(t)) =>
                  /\ mutex \in active
                  /\ \/ InSubmit(mutex)
                     \/ /\ pc[mutex] = "lock"
                        /\ pending_ops[mutex] # << >>
                        /\ Head(pending_ops[mutex]).reenters)
    /\ \A s, t \in Scheds :
           (s # t /\ Blocked(s) /\ pc[t] = "lock" /\ mutex # t)
               ~> \/ pc[t] \in {"idle", "wait", "ms_wait"} /\ signalled[t] # << >>
                  \/ lost
                  \/ pc[t] = "thrown"
                  \/ pc[t] = "lock" /\ mutex = t

\* Scheduler 1 is blocked in Finish on the tick of its submission, and
\* scheduler 2 has since taken the lock, submitted and returned from Flush.
C19_Witness ==
    /\ active = Scheds
    /\ op[1] = "Finish"
    /\ Blocked(1)
    /\ op[2] = "Flush"
    /\ pc[2] = "idle"
    /\ Len(devq) = 2
    /\ devq[1].sched = 1
    /\ devq[2].sched = 2
    /\ mutex = 0

(* ------------------------------- C20 ----------------------------------- *)

\* The front pending operation of s is due and its callback reenters.
FrontReenters(s) == FrontDue(s) /\ Head(pending_ops[s]).reenters

\* C20: deferred callbacks run inside the critical section.  A callback runs
\* in a step of the drain of the thread that holds submit_mutex, and holds
\* it still afterwards, while no other thread is inside a submit.  The drain
\* is entered from the bookkeeping only, which has polled the device counter
\* and committed and opened the new buffer, and the bookkeeping from the
\* queue submission only.  The holder gives the lock up only from the drain,
\* when no due operation is at the front of the queue or an exception thrown
\* in a callback unwinds the submit.  A callback that calls Flush, Finish or
\* a flushing Wait does not complete: it is neither counted as run nor
\* removed, it makes no submission, and its thread stays at the lock it
\* holds for ever -- no thread of any scheduler enters a submit again -- or
\* has left the scheduler by the exception.
C20_CallbacksUnderMutex ==
    /\ [][\A s \in Scheds :
              executed'[s] # executed[s] =>
                  /\ pc[s] = "drain" /\ pc'[s] = "drain"
                  /\ mutex = s /\ mutex' = s
                  /\ \A t \in active \ {s} : ~InSubmit(t) /\ pc'[t] = pc[t]]_vars
    /\ [][\A s \in Scheds :
              /\ (pc'[s] = "drain" /\ pc[s] # "drain") =>
                     /\ pc[s] = "post"
                     /\ gpu_tick'[s] >= sem[s]
                     /\ cmds'[s] = << CmdBegin >>
                     /\ ~SubmittedIn(devq', s, current_cmdbuf'[s])
                     /\ executed'[s] = executed[s]
              /\ (pc'[s] = "post" /\ pc[s] # "post") =>
                     /\ pc[s] = "body"
                     /\ Len(devq') = Len(devq) + 1
                     /\ executed'[s] = executed[s]]_vars
    /\ [][\A s \in Scheds :
              (mutex = s /\ mutex' # s) =>
                  /\ pc[s] = "drain"
                  /\ mutex' = 0
                  /\ ~FrontDue(s) \/ (FrontReenters(s) /\ pc'[s] = "thrown")]_vars
    /\ [][\A s \in Scheds :
              /\ (pc[s] = "drain" /\ FrontReenters(s) /\ pc'[s] # pc[s] /\ ~lost') =>
                     /\ pc'[s] \in {"lock", "thrown"}
                     /\ pc'[s] = "lock" => mutex' = s
                     /\ executed'[s] = executed[s]
                     /\ pending_ops'[s] = pending_ops[s]
                     /\ signalled'[s] = signalled[s]
                     /\ current_tick'[s] = current_tick[s]
              /\ (pc[s] = "lock" /\ mutex = s) =>
                     /\ pc'[s] = "lock" /\ mutex' = s
                     /\ signalled' = signalled
                     /\ executed' = executed
              /\ pc[s] = "thrown" => pc'[s] \in {"thrown", "terminated"}]_vars

\* The callback of scheduler 1 has run in the drain of its submit, which
\* still holds the lock that the thread of scheduler 2 is waiting for.
C20_Witness ==
    /\ active = Scheds
    /\ pc[1] = "drain"
    /\ executed[1] # << >>
    /\ mutex = 1
    /\ pc[2] = "lock"

====
